---- MODULE Spec2Model ----
(***************************************************************************)
(* Model of the Provider Registry and Dispatch Bridge.                     *)
(*                                                                         *)
(*   - ModelBridgeService: the stdin/stdout line bridge (a Node.js event   *)
(*     loop: 'line' events, promise continuations run as microtasks in     *)
(*     FIFO order, signal handlers).                                       *)
(*   - ProviderManager: the provider catalog, its conversion to the host   *)
(*     format, id resolution and TOML rendering.                           *)
(*   - LMICLI.addToConfig: the merge of the rendered TOML into the host    *)
(*     configuration file.                                                 *)
(*                                                                         *)
(* A JavaScript string is modelled as a sequence of pieces (Str): each     *)
(* piece is a literal fragment of text and the string is the               *)
(* concatenation of its pieces.  The patterns the code searches for        *)
(* ('lmi_', '[model_providers.lmi_') are sequences of whole pieces and no  *)
(* other piece of the model contains or completes them, so a search on     *)
(* pieces finds exactly what a search on characters finds.                 *)
(***************************************************************************)
EXTENDS Integers, Sequences, FiniteSets, TLC

\* ----------------------------------------------------------------- bounds
\* Number of input lines delivered to the bridge in one run.
MaxLines == 2
\* Number of entries of the provider catalog.
MaxProviders == 2
\* Number of runs of addToConfig on one configuration file.
MaxMerges == 2

\* ------------------------------------------------------------- variables
VARIABLES
    lines,        \* the input lines the 'line' listener has been called with, in order
    reqs,         \* reqs[i]: where the handler of line i stands, and the value it holds
    microtasks,   \* FIFO queue of promise continuations ready to run (line indices)
    calls,        \* the provider-invocation calls made so far, with their outcome
    output,       \* the lines written to stdout, each tagged with the line it answers
    signal,       \* the termination signal handled, or "none"
    cleanupEmitted, \* the 'cleanup' event was emitted
    exited,       \* the process has exited
    lmiProviders, \* ProviderManager.lmiProviders.providers: the loaded catalog
    configFile,   \* the host configuration file (~/.icodex/config.toml)
    lastCall,     \* the last ProviderManager / LMICLI operation called, and what it returned
    merges        \* how many times addToConfig has run

bridgeVars == <<lines, reqs, microtasks, calls, output, signal, cleanupEmitted, exited>>

registryVars == <<lmiProviders, configFile, lastCall, merges>>

vars == <<lines, reqs, microtasks, calls, output, signal, cleanupEmitted, exited,
          lmiProviders, configFile, lastCall, merges>>

\* ------------------------------------------------------------ JS values
Undefined == "(undefined)"

\* The empty options map, and an options map that names a provider of its own.
NoOptions == [k \in {} |-> Undefined]
OverrideOptions == [k \in {"provider"} |-> "anthropic"]

\* ------------------------------------------------------------ input lines
\* A line is either text that JSON.parse rejects, or a parsed value.
MalformedLine(text) ==
    [json |-> "invalid", text |-> text, type |-> Undefined, provider |-> Undefined,
     model |-> Undefined, messages |-> Undefined, options |-> NoOptions]

NullLine ==
    [json |-> "null", text |-> "null", type |-> Undefined, provider |-> Undefined,
     model |-> Undefined, messages |-> Undefined, options |-> NoOptions]

ObjectLine(type, provider, model, messages, options) ==
    [json |-> "object", text |-> "{...}", type |-> type, provider |-> provider,
     model |-> model, messages |-> messages, options |-> options]

InputLines ==
    { MalformedLine(""),
      MalformedLine("{bad"),
      NullLine,
      ObjectLine("foo", Undefined, Undefined, Undefined, NoOptions),
      ObjectLine(Undefined, "openai", Undefined, Undefined, NoOptions),
      ObjectLine("chat_completion", "openai", "gpt-4", "msgs", NoOptions),
      ObjectLine("chat_completion", "openai", "gpt-4", "msgs", OverrideOptions),
      ObjectLine("list_models", "openai", Undefined, Undefined, NoOptions),
      ObjectLine("list_providers", Undefined, Undefined, Undefined, NoOptions) }

\* ------------------------------------------------------------- JSON.parse
\* The message of the SyntaxError V8 raises; it depends on the text.
JSONParseMessage(text) ==
    IF text = "" THEN <<"Unexpected end of JSON input">>
    ELSE <<"Unexpected token b in JSON at position 1">>

JSONParse(line) ==
    IF line.json = "invalid"
    THEN [threw |-> TRUE, error |-> [name |-> "SyntaxError", message |-> JSONParseMessage(line.text)]]
    ELSE [threw |-> FALSE, error |-> [name |-> "none", message |-> <<>>]]

\* error.stack: the error's name and message followed by the call frames.
StackOf(error) == <<error.name, ": ">> \o error.message \o <<"\n    at ...">>

\* ------------------------------------------------ provider-invocation capability
\* What each API of the capability can do: return its result or raise.
ResultOf(api) ==
    CASE api = "chatCompletion" -> <<"chat reply">>
      [] api = "listModels" -> <<"gpt-4", "gpt-3.5">>
      [] api = "listProviders" -> <<"openai", "anthropic">>

RaisedError == [name |-> "Error", message |-> <<"provider not found">>]

Pending == [status |-> "pending", value |-> [none |-> TRUE]]
Fulfilled(v) == [status |-> "fulfilled", value |-> v]
Rejected(e) == [status |-> "rejected", value |-> e]

\* The promise an API call settles to.
Outcomes(api) == { Fulfilled([data |-> ResultOf(api)]), Rejected(RaisedError) }

\* -------------------------------------------------------- handleRequest
\* { provider, model, messages, ...options }: the options are spread last.
ChatArgs(provider, model, messages, options) ==
    LET base == [provider |-> provider, model |-> model, messages |-> messages]
    IN [k \in DOMAIN base \cup DOMAIN options |->
            IF k \in DOMAIN options THEN options[k] ELSE base[k]]

\* Faulty variant of handleRequest: the switch has no default case and an unknown type
\* falls into the list_providers handler.
handleRequestNoDefault(line) ==
    IF line.json = "null"
    THEN [kind |-> "throw",
          error |-> [name |-> "TypeError",
                     message |-> <<"Cannot destructure property 'type' of 'request' as it is null.">>]]
    ELSE CASE line.type = "chat_completion" ->
                [kind |-> "call", api |-> "chatCompletion",
                 args |-> ChatArgs(line.provider, line.model, line.messages, line.options)]
           [] line.type = "list_models" ->
                [kind |-> "call", api |-> "listModels", args |-> [provider |-> line.provider]]
           [] OTHER ->
                [kind |-> "call", api |-> "listProviders", args |-> NoOptions]

\* The synchronous part of handleRequest(request): it throws, or reaches one
\* handler, which makes its call of the capability.
handleRequest(line) ==
    IF line.json = "null"
    THEN [kind |-> "throw",
          error |-> [name |-> "TypeError",
                     message |-> <<"Cannot destructure property 'type' of 'request' as it is null.">>]]
    ELSE CASE line.type = "chat_completion" ->
                [kind |-> "call", api |-> "chatCompletion",
                 args |-> ChatArgs(line.provider, line.model, line.messages, line.options)]
           [] line.type = "list_models" ->
                [kind |-> "call", api |-> "listModels", args |-> [provider |-> line.provider]]
           [] line.type = "list_providers" ->
                [kind |-> "call", api |-> "listProviders", args |-> NoOptions]
           [] OTHER ->
                [kind |-> "throw",
                 error |-> [name |-> "Error",
                            message |-> <<"Unknown request type: ", line.type>>]]

\* Faulty variant of HandlerResult: the catch block reports the error the way sendError
\* does, with its stack.
HandlerResultWithStack(settled) ==
    IF settled.status = "fulfilled"
    THEN [success |-> TRUE, data |-> settled.value.data]
    ELSE [success |-> FALSE, error |-> settled.value.message,
          stack |-> <<settled.value.name, ": ">> \o settled.value.message \o <<"\n    at ...">>]

\* handleChatCompletion / handleListModels / handleListProviders after the
\* awaited call settled: the result wrapped, or the error's message.
HandlerResult(settled) ==
    IF settled.status = "fulfilled"
    THEN [success |-> TRUE, data |-> settled.value.data]
    ELSE [success |-> FALSE, error |-> settled.value.message]

sendResponse(response) == response

\* Faulty variant of sendError: every error is reported under one fixed message.
sendErrorFixedMessage(error) ==
    [success |-> FALSE, error |-> <<"parse error">>, stack |-> StackOf(error)]

sendError(error) ==
    [success |-> FALSE, error |-> error.message, stack |-> StackOf(error)]

\* ------------------------------------------------- JS values of the registry
\* Values are tagged with their JavaScript type.  S(p) is the string whose
\* pieces are p.
Undef == [t |-> "undefined"]
Null == [t |-> "null"]
S(pieces) == [t |-> "string", s |-> pieces]
B(b) == [t |-> "boolean", b |-> b]

\* ToBoolean.
Truthy(v) ==
    CASE v.t = "string" -> v.s # <<>>
      [] v.t = "boolean" -> v.b
      [] v.t \in {"undefined", "null"} -> FALSE
      [] OTHER -> TRUE

\* ToText, as a template literal applies it.
ToText(v) ==
    CASE v.t = "string" -> v.s
      [] v.t = "boolean" -> IF v.b THEN <<"true">> ELSE <<"false">>
      [] v.t = "undefined" -> <<"undefined">>
      [] v.t = "null" -> <<"null">>
      [] v.t = "function" -> <<"function ">> \o v.name.s \o <<"() { [native code] }">>
      [] OTHER -> <<"[object Object]">>

\* a || b
OrElse(a, b) == IF Truthy(a) THEN a ELSE b

\* String.prototype.indexOf(pat): the first position of pat in s, 0 if none.
IndexOf(s, pat) ==
    LET hits == {i \in 1..(Len(s) - Len(pat) + 1) : SubSeq(s, i, i + Len(pat) - 1) = pat}
    IN IF hits = {} THEN 0 ELSE CHOOSE i \in hits : \A j \in hits : i <= j

\* String.prototype.includes(pat)
Includes(s, pat) == IndexOf(s, pat) # 0

\* String.prototype.startsWith(pat)
StartsWith(s, pat) == Len(s) >= Len(pat) /\ SubSeq(s, 1, Len(pat)) = pat

\* Faulty variant of Replace: every occurrence is replaced, as replaceAll does.
RECURSIVE ReplaceEvery(_, _, _)
ReplaceEvery(s, pat, rep) ==
    LET i == IndexOf(s, pat)
    IN IF i = 0 THEN s
       ELSE SubSeq(s, 1, i - 1) \o rep \o ReplaceEvery(SubSeq(s, i + Len(pat), Len(s)), pat, rep)

\* String.prototype.replace(pat, rep) with a string pattern: the first
\* occurrence only, wherever it is.
Replace(s, pat, rep) ==
    LET i == IndexOf(s, pat)
    IN IF i = 0 THEN s
       ELSE SubSeq(s, 1, i - 1) \o rep \o SubSeq(s, i + Len(pat), Len(s))

\* The namespace prefix 'lmi_'.
LMI == <<"lmi_">>

\* ------------------------------------------------------- plain JS objects
\* An object is the sequence of its own properties [key, value] in insertion
\* order.  A raw catalog entry and a function are both values with the fields
\* the code reads (a function has a name and none of the others).
ProviderEntry(name, base_url, env_key, wire_api, requires_openai_auth) ==
    [t |-> "object", name |-> name, base_url |-> base_url, env_key |-> env_key,
     wire_api |-> wire_api, requires_openai_auth |-> requires_openai_auth]

FunctionValue(name) ==
    [t |-> "function", name |-> S(<<name>>), base_url |-> Undef, env_key |-> Undef,
     wire_api |-> Undef, requires_openai_auth |-> Undef]

\* The properties every plain object inherits from Object.prototype.
ObjectPrototype(key) ==
    CASE key = <<"constructor">> -> FunctionValue("Object")
      [] key \in {<<"toString">>, <<"valueOf">>, <<"hasOwnProperty">>, <<"isPrototypeOf">>,
                  <<"propertyIsEnumerable">>, <<"toLocaleString">>} -> FunctionValue(key[1])
      [] key = <<"__proto__">> ->
            [t |-> "object", name |-> Undef, base_url |-> Undef, env_key |-> Undef,
             wire_api |-> Undef, requires_openai_auth |-> Undef]
      [] OTHER -> Undef

\* obj[key]
Get(obj, key) ==
    IF \E i \in DOMAIN obj : obj[i].key = key
    THEN obj[CHOOSE i \in DOMAIN obj : obj[i].key = key].value
    ELSE ObjectPrototype(key)

\* obj[key] = value
ObjSet(obj, key, value) ==
    IF \E i \in DOMAIN obj : obj[i].key = key
    THEN [i \in DOMAIN obj |-> IF obj[i].key = key THEN [key |-> key, value |-> value] ELSE obj[i]]
    ELSE Append(obj, [key |-> key, value |-> value])

DigitSeq == <<"0", "1", "2", "3", "4", "5", "6", "7", "8", "9">>
IsDigit(p) == \E i \in DOMAIN DigitSeq : DigitSeq[i] = p
DigitValue(p) == (CHOOSE i \in DOMAIN DigitSeq : DigitSeq[i] = p) - 1

RECURSIVE NumValue(_)
NumValue(key) ==
    IF key = <<>> THEN 0
    ELSE NumValue(SubSeq(key, 1, Len(key) - 1)) * 10 + DigitValue(key[Len(key)])

\* A key that is a canonical array index (a decimal number below 2^32 - 1
\* without leading zero): the engine lists these first.  Every such number of
\* up to nine digits qualifies; the catalogs of the model hold no longer one.
IsArrayIndex(key) ==
    /\ Len(key) \in 1..9
    /\ \A i \in DOMAIN key : IsDigit(key[i])
    /\ Len(key) > 1 => key[1] # "0"

RECURSIVE AscendingIndexEntries(_, _)
AscendingIndexEntries(obj, left) ==
    IF left = {} THEN <<>>
    ELSE LET m == CHOOSE i \in left :
                      \A j \in left : NumValue(obj[i].key) <= NumValue(obj[j].key)
         IN <<obj[m]>> \o AscendingIndexEntries(obj, left \ {m})

\* Object.entries(obj) / Object.keys(obj): array-index keys in ascending
\* numeric order, then the other keys in insertion order.
ObjectEntries(obj) ==
    AscendingIndexEntries(obj, {i \in DOMAIN obj : IsArrayIndex(obj[i].key)})
        \o SelectSeq(obj, LAMBDA e : ~IsArrayIndex(e.key))

\* ------------------------------------------------------ provider catalog
\* The keys and raw entries the catalog file is drawn from.
KeyPool == { <<"openai">>, <<"ollama">>, <<"lmi_", "x">>, <<"3", "6", "0">>, <<"constructor">> }

EntryOf(key) ==
    CASE key = <<"openai">> ->
            ProviderEntry(S(<<"iEchor">>), S(<<"https://api.openai.com/v1">>),
                          S(<<"OPENAI_API_KEY">>), S(<<"lmi_bridge">>), B(FALSE))
      [] key = <<"ollama">> ->
            ProviderEntry(S(<<"Ollama">>), S(<<"http://localhost:11434">>), Undef, Undef, Undef)
      [] key = <<"lmi_", "x">> ->
            ProviderEntry(S(<<"X">>), Undef, S(<<"X_API_KEY">>), S(<<"lmi_bridge">>), B(TRUE))
      [] key = <<"3", "6", "0">> ->
            ProviderEntry(S(<<"360 AI">>), S(<<"https://api.360.cn/v1">>),
                          S(<<"QIHOO_API_KEY">>), S(<<"chat">>), B(FALSE))
      [] OTHER ->
            ProviderEntry(S(<<"Constructor AI">>), Undef, S(<<>>), S(<<"lmi_bridge">>), Undef)

\* The parsed content of lmi-providers.json: distinct keys in file order.
Catalogs ==
    LET KeySeqs == UNION {[1..n -> KeyPool] : n \in 0..MaxProviders}
    IN { [i \in DOMAIN ks |-> [key |-> ks[i], value |-> EntryOf(ks[i])]] :
            ks \in {k \in KeySeqs : \A i, j \in DOMAIN k : i # j => k[i] # k[j]} }

\* lmi-providers.json: unreadable (or not JSON), or a catalog.
CatalogFiles ==
    {[readable |-> FALSE, providers |-> <<>>]}
        \cup {[readable |-> TRUE, providers |-> c] : c \in Catalogs}

\* ------------------------------------------------------- ProviderManager
\* Returns this.lmiProviders.providers.
loadLMIProviders(file) == IF file.readable THEN file.providers ELSE <<>>

\* The hint table of getEnvKeyInstructions.
Instructions ==
    << <<"openai", "Get your API key from https://platform.openai.com/api-keys">>,
       <<"anthropic", "Get your API key from https://console.anthropic.com/">>,
       <<"google", "Get your API key from https://makersuite.google.com/app/apikey">>,
       <<"mistral", "Get your API key from https://console.mistral.ai/">>,
       <<"cohere", "Get your API key from https://dashboard.cohere.ai/">>,
       <<"huggingface", "Get your API key from https://huggingface.co/settings/tokens">>,
       <<"nvidia", "Get your API key from https://build.nvidia.com/">>,
       <<"xai", "Get your API key from https://console.x.ai/">>,
       <<"baidu", "Get your API key from https://console.bce.baidu.com/qianfan/">>,
       <<"alibaba", "Get your API key from https://dashscope.console.aliyun.com/">>,
       <<"tencent", "Get your API key from https://console.cloud.tencent.com/hunyuan/">>,
       <<"bytedance", "Get your API key from https://console.volcengine.com/ark">>,
       <<"iflytek", "Get your API key from https://www.xfyun.cn/">>,
       <<"zhipu", "Get your API key from https://open.bigmodel.cn/">>,
       <<"moonshot", "Get your API key from https://platform.moonshot.cn/">>,
       <<"deepseek", "Get your API key from https://platform.deepseek.com/">>,
       <<"qwen", "Get your API key from https://dashscope.console.aliyun.com/">>,
       <<"yi", "Get your API key from https://platform.lingyiwanwu.com/">>,
       <<"glm", "Get your API key from https://open.bigmodel.cn/">>,
       <<"claude", "Get your API key from https://console.anthropic.com/">>,
       <<"gemini", "Get your API key from https://makersuite.google.com/app/apikey">>,
       <<"gpt4", "Get your API key from https://platform.openai.com/api-keys">>,
       <<"gpt3", "Get your API key from https://platform.openai.com/api-keys">>,
       <<"llama", "Get your API key from https://llama-api.com/">>,
       <<"palm", "Get your API key from https://makersuite.google.com/app/apikey">>,
       <<"replicate", "Get your API key from https://replicate.com/account/api-tokens">>,
       <<"together", "Get your API key from https://api.together.xyz/settings/api-keys">>,
       <<"perplexity", "Get your API key from https://www.perplexity.ai/settings/api">>,
       <<"groq", "Get your API key from https://console.groq.com/keys">>,
       <<"fireworks", "Get your API key from https://fireworks.ai/">>,
       <<"openrouter", "Get your API key from https://openrouter.ai/keys">> >>

\* The table as an object: instructions[providerId].
InstructionsObject ==
    [i \in DOMAIN Instructions |->
        [key |-> <<Instructions[i][1]>>, value |-> S(<<Instructions[i][2]>>)]]

getEnvKeyInstructions(providerId, provider) ==
    OrElse(Get(InstructionsObject, providerId),
           S(<<"Get your API key from the ">> \o ToText(provider.name) \o <<" website">>))

convertToRustFormat(providerId, lmiProvider) ==
    [t |-> "object",
     name |-> lmiProvider.name,
     base_url |-> lmiProvider.base_url,
     env_key |-> lmiProvider.env_key,
     env_key_instructions |-> getEnvKeyInstructions(providerId, lmiProvider),
     wire_api |-> lmiProvider.wire_api,
     query_params |-> Null,
     http_headers |-> Null,
     env_http_headers |-> Null,
     request_max_retries |-> Null,
     stream_max_retries |-> Null,
     stream_idle_timeout_ms |-> Null,
     requires_openai_auth |-> OrElse(lmiProvider.requires_openai_auth, B(FALSE))]

RECURSIVE CollectProviders(_, _)
CollectProviders(entries, providers) ==
    IF entries = <<>> THEN providers
    ELSE CollectProviders(Tail(entries),
                          ObjSet(providers, LMI \o Head(entries).key,
                                 convertToRustFormat(Head(entries).key, Head(entries).value)))

\* Faulty variant of getAllProviders: the entry is stored under its key, without the prefix.
RECURSIVE CollectProvidersNoPrefix(_, _)
CollectProvidersNoPrefix(entries, providers) ==
    IF entries = <<>> THEN providers
    ELSE CollectProvidersNoPrefix(Tail(entries),
                          ObjSet(providers, Head(entries).key,
                                 convertToRustFormat(Head(entries).key, Head(entries).value)))

getAllProvidersNoPrefix(catalog) == CollectProvidersNoPrefix(ObjectEntries(catalog), <<>>)

getAllProviders(catalog) == CollectProviders(ObjectEntries(catalog), <<>>)

getProvider(catalog, providerId) ==
    LET cleanId == Replace(providerId, LMI, <<>>)
        providerConfig == Get(catalog, cleanId)
    IN IF ~Truthy(providerConfig) THEN Null
       ELSE convertToRustFormat(cleanId, providerConfig)

listProviderIds(catalog) ==
    LET keys == ObjectEntries(catalog)
    IN [i \in DOMAIN keys |-> LMI \o keys[i].key]

isLMIProvider(providerId) == StartsWith(providerId, LMI)

getCleanProviderId(providerId) ==
    IF isLMIProvider(providerId) THEN Replace(providerId, LMI, <<>>) ELSE providerId

\* Faulty variant of TOMLBlock: base_url is written without the test for its presence.
TOMLBlockAlwaysBaseUrl(providerId, provider) ==
    <<"[model_providers.">> \o providerId \o <<"]\n">>
    \o <<"name = \"">> \o ToText(provider.name) \o <<"\"\n">>
    \o <<"base_url = \"">> \o ToText(provider.base_url) \o <<"\"\n">>
    \o (IF Truthy(provider.env_key)
        THEN <<"env_key = \"">> \o ToText(provider.env_key) \o <<"\"\n">> ELSE <<>>)
    \o (IF Truthy(provider.env_key_instructions)
        THEN <<"env_key_instructions = \"">> \o ToText(provider.env_key_instructions) \o <<"\"\n">>
        ELSE <<>>)
    \o <<"wire_api = \"">> \o ToText(provider.wire_api) \o <<"\"\n">>
    \o <<"requires_openai_auth = ">> \o ToText(provider.requires_openai_auth) \o <<"\n\n">>

\* One block of generateTOMLConfig.
TOMLBlock(providerId, provider) ==
    <<"[model_providers.">> \o providerId \o <<"]\n">>
    \o <<"name = \"">> \o ToText(provider.name) \o <<"\"\n">>
    \o (IF Truthy(provider.base_url)
        THEN <<"base_url = \"">> \o ToText(provider.base_url) \o <<"\"\n">> ELSE <<>>)
    \o (IF Truthy(provider.env_key)
        THEN <<"env_key = \"">> \o ToText(provider.env_key) \o <<"\"\n">> ELSE <<>>)
    \o (IF Truthy(provider.env_key_instructions)
        THEN <<"env_key_instructions = \"">> \o ToText(provider.env_key_instructions) \o <<"\"\n">>
        ELSE <<>>)
    \o <<"wire_api = \"">> \o ToText(provider.wire_api) \o <<"\"\n">>
    \o <<"requires_openai_auth = ">> \o ToText(provider.requires_openai_auth) \o <<"\n\n">>

RECURSIVE TOMLBlocks(_)
TOMLBlocks(entries) ==
    IF entries = <<>> THEN <<>>
    ELSE TOMLBlock(Head(entries).key, Head(entries).value) \o TOMLBlocks(Tail(entries))

generateTOMLConfig(catalog) ==
    <<"[model_providers]\n\n">> \o TOMLBlocks(ObjectEntries(getAllProviders(catalog)))

\* ------------------------------------------------------------- LMICLI
\* The configuration file: absent, or its text.
NoConfigFile == [exists |-> FALSE, text |-> <<>>]
ConfigFile(text) == [exists |-> TRUE, text |-> text]

\* The configuration files a run starts from.
ConfigFiles ==
    { NoConfigFile,
      ConfigFile(<<>>),
      ConfigFile(<<"model = \"gpt-4\"\n">>),
      ConfigFile(<<"[model_providers.", "openai", "]\n", "name = \"", "OpenAI", "\"\n">>),
      ConfigFile(<<"[model_providers.", "lmi_", "openai", "]\n", "name = \"", "iEchor", "\"\n">>) }

\* The text addToConfig looks for.
Marker == <<"[model_providers.", "lmi_">>

\* Faulty variant of addToConfig: the test for the marker is missing.
addToConfigAlwaysAppend(file, catalog) ==
    IF ~file.exists
    THEN [file |-> file, result |-> "no config file", exit |-> 1]
    ELSE [file |-> ConfigFile(file.text \o <<"\n\n# Large Models Interface Providers\n">>
                                        \o generateTOMLConfig(catalog)),
          result |-> "added", exit |-> 0]

\* addToConfig: the file it leaves and what it reported.
addToConfig(file, catalog) ==
    IF ~file.exists
    THEN [file |-> file, result |-> "no config file", exit |-> 1]
    ELSE IF Includes(file.text, Marker)
    THEN [file |-> file, result |-> "already configured", exit |-> 0]
    ELSE [file |-> ConfigFile(file.text \o <<"\n\n# Large Models Interface Providers\n">>
                                        \o generateTOMLConfig(catalog)),
          result |-> "added", exit |-> 0]

\* ------------------------------------------------------------------ Init
BridgeInit ==
    /\ lines = <<>>
    /\ reqs = <<>>
    /\ microtasks = <<>>
    /\ calls = <<>>
    /\ output = <<>>
    /\ signal = "none"
    /\ cleanupEmitted = FALSE
    /\ exited = FALSE

NoCall == [op |-> "none", arg |-> <<>>, ret |-> Undef]

\* The bridge service started; no ProviderManager in this process.
Init ==
    /\ BridgeInit
    /\ lmiProviders = <<>>
    /\ configFile = NoConfigFile
    /\ lastCall = NoCall
    /\ merges = 0

\* new ProviderManager() over some catalog file, beside some configuration file.
RegistryInit ==
    /\ BridgeInit
    /\ \E file \in CatalogFiles : lmiProviders = loadLMIProviders(file)
    /\ configFile \in ConfigFiles
    /\ lastCall = NoCall
    /\ merges = 0

\* --------------------------------------------------------------- actions
Emit(i, body) == output' = Append(output, [req |-> i, body |-> body])

\* Faulty variant of ParseFailed: no try/catch around JSON.parse; the exception is
\* uncaught and ends the process.
ParseFailedCrash(i, error) ==
    /\ exited' = TRUE
    /\ reqs' = Append(reqs, [pc |-> "done", val |-> Pending])
    /\ UNCHANGED <<microtasks, calls, output>>

\* JSON.parse threw: catch (error) { this.sendError(error) }, in the same turn.
ParseFailed(i, error) ==
    /\ Emit(i, sendError(error))
    /\ reqs' = Append(reqs, [pc |-> "done", val |-> Pending])
    /\ UNCHANGED <<microtasks, calls, exited>>

\* rl.on('line', async (line) => {...}) up to its first suspension.
\* sync: the capability throws inside the call instead of returning a promise.
OnLine(line, sync) ==
    LET i == Len(lines) + 1
        parsed == JSONParse(line)
        hr == handleRequest(line)
    IN /\ ~exited
       /\ Len(lines) < MaxLines
       /\ lines' = Append(lines, line)
       /\ IF parsed.threw
          THEN /\ ~sync
               /\ ParseFailed(i, parsed.error)
          ELSE IF hr.kind = "throw"
          THEN \* handleRequest's promise is rejected; the await resumes in a microtask
               /\ ~sync
               /\ reqs' = Append(reqs, [pc |-> "line", val |-> Rejected(hr.error)])
               /\ microtasks' = Append(microtasks, i)
               /\ UNCHANGED <<calls, output>>
          ELSE IF sync
          THEN \* the handler's try/catch turns the throw into a failure response
               /\ calls' = Append(calls, [req |-> i, api |-> hr.api, args |-> hr.args,
                                           outcome |-> Rejected(RaisedError)])
               /\ reqs' = Append(reqs, [pc |-> "request",
                                         val |-> Fulfilled(HandlerResult(Rejected(RaisedError)))])
               /\ microtasks' = Append(microtasks, i)
               /\ UNCHANGED output
          ELSE \* the handler awaits the capability's promise
               /\ calls' = Append(calls, [req |-> i, api |-> hr.api, args |-> hr.args,
                                           outcome |-> Pending])
               /\ reqs' = Append(reqs, [pc |-> "call", val |-> Pending])
               /\ UNCHANGED <<microtasks, output>>
       /\ IF parsed.threw THEN TRUE ELSE UNCHANGED exited
       /\ UNCHANGED <<signal, cleanupEmitted>>
       /\ UNCHANGED registryVars

ReceiveLine == \E line \in InputLines, sync \in BOOLEAN : OnLine(line, sync)

\* The capability's promise of call c settles; the handler's continuation is queued.
Settle(c, o) ==
    /\ ~exited
    /\ calls[c].outcome.status = "pending"
    /\ calls' = [calls EXCEPT ![c].outcome = o]
    /\ reqs' = [reqs EXCEPT ![calls[c].req] = [pc |-> "handler", val |-> o]]
    /\ microtasks' = Append(microtasks, calls[c].req)
    /\ UNCHANGED <<lines, output, signal, cleanupEmitted, exited>>
    /\ UNCHANGED registryVars

ProviderSettle == \E c \in 1..Len(calls) : \E o \in Outcomes(calls[c].api) : Settle(c, o)

\* Faulty variant of LineContinuation: the listener has no catch block; a rejected
\* handleRequest writes nothing.
LineContinuationNoCatch(i) ==
    /\ IF reqs[i].val.status = "fulfilled"
       THEN Emit(i, sendResponse(reqs[i].val.value))
       ELSE UNCHANGED output
    /\ reqs' = [reqs EXCEPT ![i].pc = "done"]
    /\ microtasks' = Tail(microtasks)

\* The continuation of the line listener after `await this.handleRequest(request)`.
LineContinuation(i) ==
    /\ IF reqs[i].val.status = "fulfilled"
       THEN Emit(i, sendResponse(reqs[i].val.value))
       ELSE Emit(i, sendError(reqs[i].val.value))
    /\ reqs' = [reqs EXCEPT ![i].pc = "done"]
    /\ microtasks' = Tail(microtasks)

\* The event loop runs the oldest queued continuation.
RunMicrotask ==
    /\ ~exited
    /\ microtasks # <<>>
    /\ LET i == Head(microtasks)
       IN CASE reqs[i].pc = "handler" ->
                 \* return {success: ...} in handleChatCompletion and its like
                 /\ reqs' = [reqs EXCEPT ![i] = [pc |-> "request",
                                                 val |-> Fulfilled(HandlerResult(reqs[i].val))]]
                 /\ microtasks' = Append(Tail(microtasks), i)
                 /\ UNCHANGED output
            [] reqs[i].pc = "request" ->
                 \* `return await` in handleRequest resolves its promise
                 /\ reqs' = [reqs EXCEPT ![i].pc = "line"]
                 /\ microtasks' = Append(Tail(microtasks), i)
                 /\ UNCHANGED output
            [] reqs[i].pc = "line" -> LineContinuation(i)
    /\ UNCHANGED <<lines, calls, signal, cleanupEmitted, exited>>
    /\ UNCHANGED registryVars

\* Faulty variant of OnSignal: the handler runs cleanup and does not exit.
OnSignalNoExit(sig) ==
    /\ ~exited
    /\ microtasks = <<>>
    /\ signal = "none"
    /\ signal' = sig
    /\ cleanupEmitted' = TRUE
    /\ UNCHANGED <<lines, reqs, microtasks, calls, output, exited>>
    /\ UNCHANGED registryVars

\* process.on('SIGINT' | 'SIGTERM'): cleanup() emits 'cleanup', then process.exit(0).
\* A signal handler runs as its own turn of the event loop, after the microtasks.
OnSignal(sig) ==
    /\ ~exited
    /\ microtasks = <<>>
    /\ signal' = sig
    /\ cleanupEmitted' = TRUE
    /\ exited' = TRUE
    /\ UNCHANGED <<lines, reqs, microtasks, calls, output>>
    /\ UNCHANGED registryVars

Signal == \E sig \in {"SIGINT", "SIGTERM"} : OnSignal(sig)

Next == ReceiveLine \/ ProviderSettle \/ RunMicrotask \/ Signal

Spec == Init /\ [][Next]_vars

\* A run in which no termination signal arrives.  Every queued continuation is
\* run by the event loop, and every call of the capability settles.
NextNoSignal == ReceiveLine \/ ProviderSettle \/ RunMicrotask

FairSpec ==
    Init /\ [][NextNoSignal]_vars /\ WF_vars(RunMicrotask) /\ WF_vars(ProviderSettle)

\* ------------------------------------------------------ registry: actions
\* The ids the host asks about: catalog keys, prefixed keys, and others.
QueryIds ==
    KeyPool \cup {LMI \o k : k \in KeyPool}
        \cup { <<"gpt-4">>, <<"lmi_", "nokey">>, <<"my", "lmi_", "openai">>, <<"lmi_", "toString">> }

Returned(op, arg, ret) ==
    /\ lastCall' = [op |-> op, arg |-> arg, ret |-> ret]
    /\ UNCHANGED <<lmiProviders, configFile, merges>>
    /\ UNCHANGED bridgeVars

CallGetAllProviders == Returned("getAllProviders", <<>>, getAllProviders(lmiProviders))

CallListProviderIds == Returned("listProviderIds", <<>>, listProviderIds(lmiProviders))

CallGetProvider == \E id \in QueryIds : Returned("getProvider", id, getProvider(lmiProviders, id))

CallIsLMIProvider == \E id \in QueryIds : Returned("isLMIProvider", id, isLMIProvider(id))

CallGetCleanProviderId ==
    \E id \in QueryIds : Returned("getCleanProviderId", id, getCleanProviderId(id))

\* getEnvKeyInstructions as convertToRustFormat calls it, for one catalog entry.
CallGetEnvKeyInstructions ==
    \E i \in DOMAIN lmiProviders :
        Returned("getEnvKeyInstructions", lmiProviders[i].key,
                 getEnvKeyInstructions(lmiProviders[i].key, lmiProviders[i].value))

CallGenerateTOMLConfig ==
    Returned("generateTOMLConfig", <<>>, generateTOMLConfig(lmiProviders))

\* lmi-cli add-to-config
CallAddToConfig ==
    /\ merges < MaxMerges
    /\ LET r == addToConfig(configFile, lmiProviders)
       IN /\ configFile' = r.file
          /\ lastCall' = [op |-> "addToConfig", arg |-> <<>>, ret |-> r.result]
    /\ merges' = merges + 1
    /\ UNCHANGED lmiProviders
    /\ UNCHANGED bridgeVars

RegistryNext ==
    \/ CallGetAllProviders
    \/ CallListProviderIds
    \/ CallGetProvider
    \/ CallIsLMIProvider
    \/ CallGetCleanProviderId
    \/ CallGetEnvKeyInstructions
    \/ CallGenerateTOMLConfig
    \/ CallAddToConfig

RegistrySpec == RegistryInit /\ [][RegistryNext]_vars

\* ------------------------------------------------------ bridge: properties
ResponsesFor(i) == {j \in 1..Len(output) : output[j].req = i}
NumResponses(i) == Cardinality(ResponsesFor(i))
ResponseOf(i) == output[CHOOSE j \in ResponsesFor(i) : TRUE].body
CallsFor(i) == {c \in 1..Len(calls) : calls[c].req = i}
IsMalformed(line) == line.json = "invalid"
RequestTypes == {"chat_completion", "list_models", "list_providers"}
IsProviderRequest(line) == line.json = "object" /\ line.type \in RequestTypes
IsUnknownType(line) == line.json = "object" /\ line.type \notin RequestTypes

\* C1: the responses appear on the output in the order in which their request
\* lines arrived.
C1_ResponsesInRequestOrder ==
    \A j, k \in 1..Len(output) : j < k => output[j].req < output[k].req

\* C2: without a termination signal every input line gets exactly one response
\* line: never two, and eventually one.
C2_ExactlyOneResponse ==
    /\ [](\A i \in 1..Len(lines) : NumResponses(i) <= 1)
    /\ \A i \in 1..MaxLines : [](Len(lines) >= i => <>(NumResponses(i) = 1))

\* A provider error answered with a failure, and the valid request after it
\* answered with a success.
C2_Witness ==
    /\ Len(lines) = 2
    /\ IsProviderRequest(lines[1]) /\ IsProviderRequest(lines[2])
    /\ NumResponses(1) = 1 /\ NumResponses(2) = 1
    /\ ResponseOf(1).success = FALSE
    /\ ResponseOf(2).success = TRUE

\* C3: at most one call of the capability is outstanding at any time.
C3_AtMostOneDispatching ==
    Cardinality({i \in 1..Len(reqs) : reqs[i].pc = "call"}) <= 1

\* C4: a line that is not valid JSON makes no call of the capability, is
\* answered at once by exactly one failure response, and does not end the
\* process (only a signal does).
C4_MalformedLineRecovered ==
    \A i \in 1..Len(lines) :
        IsMalformed(lines[i]) =>
            /\ CallsFor(i) = {}
            /\ NumResponses(i) = 1
            /\ ResponseOf(i).success = FALSE
            /\ reqs[i].pc = "done"
            /\ exited => signal # "none"

\* A malformed line answered, and a later request served with a success.
C4_Witness ==
    /\ Len(lines) = 2
    /\ IsMalformed(lines[1])
    /\ NumResponses(1) = 1
    /\ IsProviderRequest(lines[2])
    /\ NumResponses(2) = 1
    /\ ResponseOf(2).success = TRUE

\* C5: the response to a chat_completion, list_models or list_providers request
\* is {success:true, data:r} when the capability returned r and
\* {success:false, error:m}, with no stack, when it raised with message m.
C5_ResultWrapped ==
    \A j \in 1..Len(output) :
        LET i == output[j].req
        IN IsProviderRequest(lines[i]) =>
               /\ Cardinality(CallsFor(i)) = 1
               /\ \A c \in CallsFor(i) :
                      \/ /\ calls[c].outcome.status = "fulfilled"
                         /\ output[j].body =
                                [success |-> TRUE, data |-> calls[c].outcome.value.data]
                      \/ /\ calls[c].outcome.status = "rejected"
                         /\ output[j].body =
                                [success |-> FALSE, error |-> calls[c].outcome.value.message]

\* list_providers answered with the capability's list, and another request
\* answered with the capability's failure message.
C5_Witness ==
    \E j, k \in 1..Len(output) :
        /\ lines[output[j].req].type = "list_providers"
        /\ output[j].body = [success |-> TRUE, data |-> <<"openai", "anthropic">>]
        /\ IsProviderRequest(lines[output[k].req])
        /\ output[k].body = [success |-> FALSE, error |-> <<"provider not found">>]

\* C6: a request of any other type (or of none) makes no call of the
\* capability, gets exactly one failure response of the kind a parse error
\* gets (message and stack), and does not end the process.
C6_UnknownTypeRecovered ==
    \A i \in 1..Len(lines) :
        IsUnknownType(lines[i]) =>
            /\ CallsFor(i) = {}
            /\ NumResponses(i) <= 1
            /\ reqs[i].pc \in {"line", "done"}
            /\ reqs[i].pc = "done" =>
                   /\ NumResponses(i) = 1
                   /\ ResponseOf(i) =
                        sendError([name |-> "Error",
                                   message |-> <<"Unknown request type: ", lines[i].type>>])
            /\ exited => signal # "none"

\* A request without a type answered with a failure, and a later request served.
C6_Witness ==
    /\ Len(lines) = 2
    /\ IsUnknownType(lines[1]) /\ lines[1].type = Undefined
    /\ NumResponses(1) = 1 /\ ResponseOf(1).success = FALSE
    /\ IsProviderRequest(lines[2])
    /\ NumResponses(2) = 1 /\ ResponseOf(2).success = TRUE

\* C7: once a termination signal is handled, cleanup has run, the process has
\* exited, and nothing more is written to the output.
C7_NoResponseAfterSignal ==
    /\ [](signal # "none" => cleanupEmitted /\ exited)
    /\ [][signal # "none" => output' = output]_vars

\* A signal handled while a call of the capability is still outstanding.
C7_Witness ==
    /\ signal # "none"
    /\ \E i \in 1..Len(reqs) : reqs[i].pc = "call" /\ NumResponses(i) = 0

\* ---------------------------------------------------- registry: properties
CatalogKeys == {lmiProviders[i].key : i \in DOMAIN lmiProviders}
KeysOf(obj) == {obj[i].key : i \in DOMAIN obj}

\* C8: getAllProviders yields one config per catalog entry, stored under
\* "lmi_" + key, no two under the same id; listProviderIds returns the same ids.
C8_OneConfigPerEntry ==
    /\ lastCall.op = "getAllProviders" =>
          /\ Len(lastCall.ret) = Len(lmiProviders)
          /\ \A i, j \in DOMAIN lastCall.ret : i # j => lastCall.ret[i].key # lastCall.ret[j].key
          /\ KeysOf(lastCall.ret) = {LMI \o k : k \in CatalogKeys}
          /\ \A i \in DOMAIN lmiProviders :
                Get(lastCall.ret, LMI \o lmiProviders[i].key)
                    = convertToRustFormat(lmiProviders[i].key, lmiProviders[i].value)
    /\ lastCall.op = "listProviderIds" =>
          /\ Len(lastCall.ret) = Len(lmiProviders)
          /\ {lastCall.ret[i] : i \in DOMAIN lastCall.ret} = {LMI \o k : k \in CatalogKeys}

\* getAllProviders has returned for a catalog of two entries, one of whose keys
\* contains the prefix itself.
C8_Witness ==
    /\ lastCall.op = "getAllProviders"
    /\ Len(lmiProviders) = 2
    /\ <<"lmi_", "x">> \in CatalogKeys
    /\ Len(lastCall.ret) = 2

\* C9: getProvider returns a config only for "lmi_" + key with key in the
\* catalog, and null for every other id.
C9_ResolveOnlyNamespacedIds ==
    lastCall.op = "getProvider" =>
        (lastCall.ret # Null <=>
            /\ StartsWith(lastCall.arg, LMI)
            /\ SubSeq(lastCall.arg, Len(LMI) + 1, Len(lastCall.arg)) \in CatalogKeys)

\* C10: a run of addToConfig after the first leaves the file as it is.
C10_MergeIdempotent ==
    [][(merges >= 1 /\ merges' = merges + 1) => configFile' = configFile]_vars

\* C11: when the existing file contains "[model_providers.lmi_", addToConfig
\* leaves it as it is and reports that the providers are already configured;
\* otherwise the new file is the old text followed by the rendered block set.
C11_MergeFrame ==
    [][(merges' = merges + 1 /\ configFile.exists) =>
          IF Includes(configFile.text, Marker)
          THEN /\ configFile' = configFile
               /\ lastCall'.ret = "already configured"
          ELSE LET old == configFile.text
                   new == configFile'.text
                   toml == generateTOMLConfig(lmiProviders)
               IN /\ configFile'.exists
                  /\ Len(new) > Len(old) + Len(toml)
                  /\ SubSeq(new, 1, Len(old)) = old
                  /\ SubSeq(new, Len(new) - Len(toml) + 1, Len(new)) = toml
                  /\ lastCall'.ret = "added"]_vars

\* A first run appended the blocks of a catalog of two providers to a file
\* that had text of its own, and a second run reported them present.
C11_Witness ==
    /\ merges = 2
    /\ lastCall.op = "addToConfig"
    /\ lastCall.ret = "already configured"
    /\ Len(lmiProviders) = 2
    /\ StartsWith(configFile.text, <<"model = \"gpt-4\"\n">>)
    /\ Includes(configFile.text, <<"\n\n# Large Models Interface Providers\n">>)

HintKeys == {<<Instructions[i][1]>> : i \in DOMAIN Instructions}
HintFor(key) == S(<<Instructions[CHOOSE i \in DOMAIN Instructions : <<Instructions[i][1]>> = key][2]>>)

\* C12: for every catalog key getEnvKeyInstructions returns a non-empty string:
\* the string of the hint table when the key is in it, and otherwise
\* "Get your API key from the <name> website".
C12_HintIsString ==
    lastCall.op = "getEnvKeyInstructions" =>
        /\ lastCall.ret.t = "string"
        /\ lastCall.ret.s # <<>>
        /\ lastCall.ret =
              IF lastCall.arg \in HintKeys THEN HintFor(lastCall.arg)
              ELSE S(<<"Get your API key from the ">>
                       \o Get(lmiProviders, lastCall.arg).name.s \o <<" website">>)

\* C13: every config the registry produces has wire_api "lmi_bridge", whatever
\* the catalog entry holds.
C13_WireApiFixed ==
    lastCall.op = "getAllProviders" =>
        \A i \in DOMAIN lastCall.ret : lastCall.ret[i].value.wire_api = S(<<"lmi_bridge">>)

\* The block C14 describes for one catalog entry: the header line with
\* lmi_<key>; name, wire_api and requires_openai_auth always; base_url, env_key
\* and env_key_instructions only when present and not empty.
Present(v) == v.t # "undefined" /\ v # S(<<>>)

C14_Block(key, entry) ==
    <<"[model_providers.", "lmi_">> \o key \o <<"]\n">>
    \o <<"name = \"">> \o ToText(entry.name) \o <<"\"\n">>
    \o (IF Present(entry.base_url)
        THEN <<"base_url = \"">> \o entry.base_url.s \o <<"\"\n">> ELSE <<>>)
    \o (IF Present(entry.env_key)
        THEN <<"env_key = \"">> \o entry.env_key.s \o <<"\"\n">> ELSE <<>>)
    \o (IF Present(getEnvKeyInstructions(key, entry))
        THEN <<"env_key_instructions = \"">> \o ToText(getEnvKeyInstructions(key, entry))
                 \o <<"\"\n">>
        ELSE <<>>)
    \o <<"wire_api = \"">> \o ToText(entry.wire_api) \o <<"\"\n">>
    \o <<"requires_openai_auth = ">>
    \o (IF entry.requires_openai_auth = B(TRUE) THEN <<"true">> ELSE <<"false">>)
    \o <<"\n\n">>

RECURSIVE C14_Blocks(_)
C14_Blocks(entries) ==
    IF entries = <<>> THEN <<>>
    ELSE C14_Block(Head(entries).key, Head(entries).value) \o C14_Blocks(Tail(entries))

\* C14 as claimed: one such block per catalog entry, in catalog (file) order.
C14_RenderInCatalogOrder ==
    lastCall.op = "generateTOMLConfig" =>
        lastCall.ret = <<"[model_providers]\n\n">> \o C14_Blocks(lmiProviders)

\* C14 as amended: one such block per catalog entry, in the order Object.entries
\* lists the catalog: keys that are array indices first, in ascending numeric
\* order, then the other keys in catalog order.
C14_RenderInEnumerationOrder ==
    lastCall.op = "generateTOMLConfig" =>
        lastCall.ret = <<"[model_providers]\n\n">> \o C14_Blocks(ObjectEntries(lmiProviders))

\* Rendered from a catalog whose second key is the number 360 and whose first
\* entry has no credential variable.
C14_Witness ==
    /\ lastCall.op = "generateTOMLConfig"
    /\ Len(lmiProviders) = 2
    /\ lmiProviders[1].key = <<"ollama">>
    /\ lmiProviders[2].key = <<"3", "6", "0">>
    /\ StartsWith(lastCall.ret, <<"[model_providers]\n\n", "[model_providers.", "lmi_", "3", "6", "0", "]\n">>)

\* C15 as claimed: the response to a line that is not valid JSON is exactly
\* {success:false, error:"parse error"}, whatever the line's text.
C15_FixedParseError ==
    \A j \in 1..Len(output) :
        IsMalformed(lines[output[j].req]) =>
            output[j].body = [success |-> FALSE, error |-> <<"parse error">>]

\* C15 as amended: the response to a line that is not valid JSON is
\* {success:false, error:m, stack:s} where m is the message of the SyntaxError
\* JSON.parse raised for that line's text and s is that error's stack.
C15_ParseFailureReported ==
    \A j \in 1..Len(output) :
        LET line == lines[output[j].req]
            m == JSONParseMessage(line.text)
        IN IsMalformed(line) =>
               /\ DOMAIN output[j].body = {"success", "error", "stack"}
               /\ output[j].body.success = FALSE
               /\ output[j].body.error = m
               /\ output[j].body.stack = <<"SyntaxError", ": ">> \o m \o <<"\n    at ...">>

\* Two malformed lines of different text answered with different error fields.
C15_Witness ==
    /\ Len(lines) = 2
    /\ IsMalformed(lines[1]) /\ IsMalformed(lines[2])
    /\ lines[1].text # lines[2].text
    /\ NumResponses(1) = 1 /\ NumResponses(2) = 1
    /\ ResponseOf(1).error # ResponseOf(2).error

\* C16: every call of the capability's chat API is made with the provider,
\* model and messages of the request that caused it, whatever the request's
\* options map holds.
C16_CallUsesRequestFields ==
    \A c \in 1..Len(calls) :
        calls[c].api = "chatCompletion" =>
            /\ calls[c].args.provider = lines[calls[c].req].provider
            /\ calls[c].args.model = lines[calls[c].req].model
            /\ calls[c].args.messages = lines[calls[c].req].messages

\* C17: for every catalog key k, also one that contains "lmi_",
\* getCleanProviderId("lmi_" + k) is k and getProvider("lmi_" + k) is the
\* config getAllProviders stores under "lmi_" + k.
C17_IdsReversible ==
    \A k \in CatalogKeys :
        lastCall.arg = LMI \o k =>
            /\ lastCall.op = "getCleanProviderId" => lastCall.ret = k
            /\ lastCall.op = "getProvider" =>
                  /\ lastCall.ret # Null
                  /\ lastCall.ret = Get(getAllProviders(lmiProviders), LMI \o k)

\* getCleanProviderId asked about the id of a catalog key that contains the
\* prefix itself.
C17_Witness ==
    /\ <<"lmi_", "x">> \in CatalogKeys
    /\ lastCall.op = "getCleanProviderId"
    /\ lastCall.arg = <<"lmi_", "lmi_", "x">>
    /\ lastCall.ret = <<"lmi_", "x">>

====
